---- MODULE Spec2Model ----
(***************************************************************************)
(* Model of example_gui.py: the play loop Example.run, the quit slot and   *)
(* the probability verifier verify().                                      *)
(*                                                                         *)
(* Probabilities are exact rationals: a grid entry is an integer numerator *)
(* over the common denominator Den, or NaN.  Floating-point rounding is    *)
(* not modelled; np.isclose is modelled with its default tolerances.       *)
(*                                                                         *)
(* The game (minesweeper.gui / minesweeper.Minesweeper) is an external     *)
(* package: it is modelled by its interface as run() uses it.  The solver  *)
(* returns an arbitrary grid of a bounded family.                          *)
(***************************************************************************)
EXTENDS FiniteSets, Integers, Naturals, Sequences, TLC

(***************************************************************************)
(* Bounds of the model.                                                    *)
(***************************************************************************)
Width == 3
Height == 3
MaxMines == 2
MaxGames == 2
MaxSolves == 2

\* Common denominator of the modelled probabilities: 1/9, 1/8 and 1/3 are
\* all representable, and one unit lies below the tolerance of np.isclose.
Den == 9 * 8 * 5000

\* np.nan: a value outside the numerators used by the model.
NaN == 0 - 1000000

\* numpy's np.isclose defaults: atol = 1e-8, rtol = 1e-5 (as reciprocals).
AtolInv == 100000000
RtolInv == 100000

Cells == (0 .. (Width - 1)) \X (0 .. (Height - 1))

IsNan(v) == v = NaN

Abs(n) == IF n < 0 THEN 0 - n ELSE n

RECURSIVE GCD(_, _)
GCD(a, b) == IF b = 0 THEN a ELSE GCD(b, a % b)

(***************************************************************************)
(* Rationals <<n, d>> with d > 0, kept in lowest terms: the floats         *)
(* expected_win, expected_wins and wins/games.                             *)
(***************************************************************************)
Rat(n, d) == LET g == GCD(Abs(n), d) IN <<n \div g, d \div g>>

RatMul(a, b) == Rat(a[1] * b[1], a[2] * b[2])

RatAdd(a, b) == Rat(a[1] * b[2] + b[1] * a[2], a[2] * b[2])

RatLeq(a, b) == a[1] * b[2] <= b[1] * a[2]

One == Rat(1, 1)

\* expected_win is the int 1 from line 55 until line 74 multiplies it by the
\* float 1 - best_prob, which lies strictly below 1; so it is an int exactly
\* when it is 1.
IsInt(e) == e = One

Zero == Rat(0, 1)

(***************************************************************************)
(* Board state entries (game.state[y][x]): unopened, "flag" or an int.     *)
(***************************************************************************)
Unopened == [kind |-> "unopened", n |-> 0]

Flagged == [kind |-> "flag", n |-> 0]

Num(k) == [kind |-> "num", n |-> k]

\* The cells of the 3x3 window around c that lie on the board, c included.
Window(c) == {d \in Cells : Abs(d[1] - c[1]) <= 1 /\ Abs(d[2] - c[2]) <= 1}

Neighbours(c) == Window(c) \ {c}

\* Row-major position of a cell: the order of numpy's nonzero().
RowMajor(c) == c[2] * Width + c[1]

\* The cell at a row-major position.
CellAt(i) == <<i % Width, i \div Width>>

\* The cells of S at row-major positions i and up, in row-major order.
RECURSIVE CellSeqFrom(_, _)
CellSeqFrom(S, i) ==
    IF i >= Width * Height THEN <<>>
    ELSE (IF CellAt(i) \in S THEN <<CellAt(i)>> ELSE <<>>) \o CellSeqFrom(S, i + 1)

\* The cells of S as a sequence in row-major order.
CellSeq(S) == CellSeqFrom(S, 0)

\* The sum of f over the cells of S at row-major positions 0 .. i.
RECURSIVE SumUpTo(_, _, _)
SumUpTo(f, S, i) ==
    IF i < 0 THEN 0
    ELSE (IF CellAt(i) \in S THEN f[CellAt(i)] ELSE 0) + SumUpTo(f, S, i - 1)

SumOver(f, S) == SumUpTo(f, S, Width * Height - 1)

(***************************************************************************)
(* numpy primitives used by run() and verify().                            *)
(***************************************************************************)
NonNan(prob) == {c \in Cells : ~IsNan(prob[c])}

\* np.nanmin: the smallest non-NaN entry, NaN when every entry is NaN.
nanmin(prob) ==
    IF NonNan(prob) = {} THEN NaN
    ELSE LET c == CHOOSE d \in NonNan(prob) :
                      \A e \in NonNan(prob) : prob[d] <= prob[e]
         IN prob[c]

\* np.nansum: the sum with NaN entries counted as 0.
nansum(prob) == SumOver(prob, NonNan(prob))

\* The tolerance of np.isclose(a, b), atol + rtol * |b|, on numerators over
\* Den and rounded down: (Den + |b| * (AtolInv / RtolInv)) / AtolInv, with the
\* whole multiples of RtolInv in |b| taken out first so that no product
\* leaves the integer range.
Tolerance(b) ==
    Abs(b) \div RtolInv
        + (Den + (Abs(b) % RtolInv) * (AtolInv \div RtolInv)) \div AtolInv

\* np.isclose(a, b): |a - b| <= atol + rtol * |b|.
IsClose(a, b) == Abs(a - b) <= Tolerance(b)

\* (prob == 1).sum()
CountOnes(prob) == Cardinality({c \in Cells : prob[c] = Den})

\* ar of verify(): NaN replaced by 0, then flagged cells set to 1.
FilledGrid(state, prob) ==
    [c \in Cells |-> IF state[c] = Flagged THEN Den
                     ELSE IF IsNan(prob[c]) THEN 0 ELSE prob[c]]

\* convolve2d(ar, np.ones((3, 3)), mode='same'): the sum of the 3x3 window
\* centred on c, the centre included, cells off the board counting 0.
SummedProb(state, prob, c) == SumOver(FilledGrid(state, prob), Window(c))

\* The cells holding an int (a revealed number).
NumberCells(state) == {c \in Cells : state[c].kind = "num"}

\* Line 101: every known value is above 0 and at most 1.
RangeOk(prob) == \A c \in NonNan(prob) : prob[c] > 0 /\ prob[c] <= Den

\* Mutant of BestOk: the check on the best probability is dropped.
BestOkDropped(prob) == TRUE

\* Line 103: 0 < np.nanmin(prob) < 1.
BestOk(prob) == LET m == nanmin(prob) IN ~IsNan(m) /\ 0 < m /\ m < Den

\* Mutant of GlobalOk: the check on the sum of the grid is dropped.
GlobalOkDropped(game, prob) == TRUE

\* Mutant of GlobalOk: the sum is taken with flagged cells forced to 1.
GlobalOkFlagsForced(game, prob) ==
    IsClose(SumOver(FilledGrid(game.state, prob), Cells),
            (game.mines_left + CountOnes(prob)) * Den)

\* Line 105: the sum of the grid against mines_left plus the number of ones.
GlobalOk(game, prob) ==
    IsClose(nansum(prob), (game.mines_left + CountOnes(prob)) * Den)

\* Mutant of LocalOk: the guard is "not np.isnan(state).any()", so the check
\* is skipped unless every cell of the board shows a number.
LocalOkGuardAny(game, prob) ==
    ~ (/\ NumberCells(game.state) = Cells
       /\ ~ \A c \in NumberCells(game.state) :
                IsClose(game.state[c].n * Den, SummedProb(game.state, prob, c)))

\* Line 113: unless no cell shows a number, every number against the sum of
\* its 3x3 window.
LocalOk(game, prob) ==
    ~ (/\ NumberCells(game.state) # {}
       /\ ~ \A c \in NumberCells(game.state) :
                IsClose(game.state[c].n * Den, SummedProb(game.state, prob, c)))

\* Mutant of verify: the neighbour check is moved to the front.
verifyLocalFirst(game, prob) ==
    IF ~LocalOk(game, prob) THEN "LocalSumMismatch"
    ELSE IF ~RangeOk(prob) THEN "OutOfRange"
    ELSE IF ~BestOk(prob) THEN "NoValidGuessBound"
    ELSE IF ~GlobalOk(game, prob) THEN "GlobalSumMismatch"
    ELSE "ok"

\* verify(game, prob): "ok" when it returns, else the kind of the exception
\* it raises.
verify(game, prob) ==
    IF ~RangeOk(prob) THEN "OutOfRange"
    ELSE IF ~BestOk(prob) THEN "NoValidGuessBound"
    ELSE IF ~GlobalOk(game, prob) THEN "GlobalSumMismatch"
    ELSE IF ~LocalOk(game, prob) THEN "LocalSumMismatch"
    ELSE "ok"

(***************************************************************************)
(* The guess policy (minesweeper_solver.policies.corner_then_edge2_policy):*)
(* among the cells attaining the minimum, a corner is preferred, then an   *)
(* edge cell, then the lexicographically smallest coordinate.              *)
(***************************************************************************)
IsCorner(c) == c[1] \in {0, Width - 1} /\ c[2] \in {0, Height - 1}

IsEdge(c) == c[1] \in {0, Width - 1} \/ c[2] \in {0, Height - 1}

LexLeast(S) ==
    CHOOSE c \in S : \A d \in S : c[1] < d[1] \/ (c[1] = d[1] /\ c[2] <= d[2])

NoGuess == <<0 - 1, 0 - 1>>

corner_then_edge2_policy(prob) ==
    LET best == {c \in NonNan(prob) : prob[c] = nanmin(prob)}
        corners == {c \in best : IsCorner(c)}
        edges == {c \in best : IsEdge(c)}
    IN IF best = {} THEN NoGuess
       ELSE IF corners # {} THEN LexLeast(corners)
       ELSE IF edges # {} THEN LexLeast(edges)
       ELSE LexLeast(best)

(***************************************************************************)
(* The game session as run() uses it (package minesweeper, external).      *)
(* A game is [state, mines, done, won, mines_left]; mines is the hidden    *)
(* layout, of game.num_mines = Cardinality(mines) mines.  The layouts      *)
(* place the mines on the first guess, next to it or away from it.         *)
(***************************************************************************)
MineCells == {<<0, 0>>, <<1, 0>>, <<Width - 1, Height - 1>>}

Layouts(n) == {S \in SUBSET MineCells : Cardinality(S) = n}

\* gui.reset(): a fresh board over a new random layout.
NewGame(mines) ==
    [state |-> [c \in Cells |-> Unopened], mines |-> mines, done |-> FALSE,
     won |-> FALSE, mines_left |-> Cardinality(mines)]

\* game.num_mines
num_mines(game) == Cardinality(game.mines)

AdjacentMines(game, c) == Cardinality(Neighbours(c) \cap game.mines)

\* gui.left_click_action(x, y): open an unopened cell; a mine ends the game
\* as lost, the last safe cell ends it as won.
left_click_action(game, c) ==
    IF c \notin Cells THEN game
    ELSE IF game.done \/ game.state[c] # Unopened THEN game
    ELSE IF c \in game.mines THEN [game EXCEPT !.done = TRUE, !.won = FALSE]
    ELSE LET st == [game.state EXCEPT ![c] = Num(AdjacentMines(game, c))]
             all == \A d \in Cells \ game.mines : st[d].kind = "num"
         IN [game EXCEPT !.state = st, !.done = all, !.won = all]

\* gui.right_click_action(x, y): toggle the flag of a cell that is not open.
right_click_action(game, c) ==
    IF game.done THEN game
    ELSE IF game.state[c] = Unopened
         THEN [game EXCEPT !.state[c] = Flagged, !.mines_left = @ - 1]
    ELSE IF game.state[c] = Flagged
         THEN [game EXCEPT !.state[c] = Unopened, !.mines_left = @ + 1]
    ELSE game

\* game.is_won()
is_won(game) == game.done /\ game.won

(***************************************************************************)
(* The grids solver.solve(state) may return: a background value, with one  *)
(* anchor cell or the neighbours of one anchor cell set to another value.  *)
(* The anchors are a corner and the cell diagonally next to it.  The       *)
(* values include NaN, a negative value, 0, uncertain values and 1.        *)
(***************************************************************************)
ProbValues == {NaN, 0 - (Den \div 9), 0, Den \div 9, Den \div 8, Den \div 3, Den}

Anchors == {<<0, 0>>, <<1, 1>>}

Regions == {{}} \cup {{c} : c \in Anchors} \cup {Neighbours(c) : c \in Anchors}

GridOf(b, R, u) == [c \in Cells |-> IF c \in R THEN u ELSE b]

Grids == {GridOf(b, R, u) : b \in ProbValues, R \in Regions, u \in ProbValues}

NoGrid == [c \in Cells |-> NaN]

(***************************************************************************)
(* The events of one step, in the order run() performs them.               *)
(***************************************************************************)
Ev(op, c) == [op |-> op, x |-> c[1], y |-> c[2]]

\* Mutant of NewMines: the test state != "flag" is lost, every cell at
\* probability 1 is right-clicked.
NewMinesAllOnes(state, prob) ==
    CellSeq({c \in Cells : prob[c] = Den})

\* The cells run() right-clicks: (prob == 1) & (state != "flag"), row-major.
NewMines(state, prob) ==
    CellSeq({c \in Cells : prob[c] = Den /\ state[c] # Flagged})

\* Mutant of BestCells: only the first of the best cells.
BestCellsFirstOnly(prob) ==
    IF {c \in NonNan(prob) : prob[c] = nanmin(prob)} = {} THEN <<>>
    ELSE <<Head(CellSeq({c \in NonNan(prob) : prob[c] = nanmin(prob)}))>>

\* ys, xs = (prob == best_prob).nonzero(), row-major; empty when best_prob
\* is NaN, which equals nothing.
BestCells(prob) ==
    CellSeq({c \in NonNan(prob) : prob[c] = nanmin(prob)})

\* Mutant of Complement: the probability itself instead of 1 - best_prob.
ComplementSwapped(p) == Rat(p, Den)

\* 1 - best_prob
Complement(p) == Rat(Den - p, Den)

VARIABLES
    quitting,        \* self.quitting
    pc,              \* the worker's position in run()
    wins,            \* wins
    games,           \* games
    expected_wins,   \* expected_wins
    expected_win,    \* expected_win
    game,            \* gui.game
    prob,            \* prob of the current step
    todo,            \* the cells the loop under way has yet to visit
    verdict,         \* the outcome of the current step's verify call
    report,          \* the values printed at line 87
    log,             \* history: the events of the current step
    state0,          \* history: the board when the grid was obtained
    ew0,             \* history: expected_win when the grid was obtained
    solves,          \* history: number of solve calls
    seenQuit,        \* history: the worker has read quitting as True
    solvesAfterQuit, \* history: solve calls started since quit()
    resetsAfterQuit, \* history: gui.reset() calls started since quit()
    recorded,        \* history: <<won, expected_win>> of every game printed
    base             \* history: the grid and verdict before a grid was changed

vars ==
    <<quitting, pc, wins, games, expected_wins, expected_win, game, prob, todo,
      verdict, report, log, state0, ew0, solves, seenQuit, solvesAfterQuit,
      resetsAfterQuit, recorded, base>>

stats == <<wins, games, expected_wins, report, recorded>>

step == <<prob, todo, verdict, log, state0, ew0>>

quitHist == <<solvesAfterQuit, resetsAfterQuit>>

NoBase == [prob |-> NoGrid, verdict |-> "none", cell |-> NoGuess]

NoReport == [game_win |-> Zero, wins |-> 0, games |-> 0, e_wins |-> Zero, win_rate |-> Zero]

Init ==
    /\ quitting = FALSE
    /\ pc = "outer"
    /\ wins = 0
    /\ games = 0
    /\ expected_wins = Zero
    /\ expected_win = Zero
    /\ \E n \in 1 .. MaxMines : game \in {NewGame(m) : m \in Layouts(n)}
    /\ prob = NoGrid
    /\ todo = <<>>
    /\ verdict = "none"
    /\ report = NoReport
    /\ log = <<>>
    /\ state0 = game.state
    /\ ew0 = Zero
    /\ solves = 0
    /\ seenQuit = FALSE
    /\ solvesAfterQuit = 0
    /\ resetsAfterQuit = 0
    /\ recorded = <<>>
    /\ base = NoBase

\* Example.quit, run by the GUI thread when aboutToQuit is emitted.
Quit ==
    /\ ~quitting
    /\ quitting' = TRUE
    /\ UNCHANGED <<pc, expected_win, game, solves, seenQuit>>
    /\ UNCHANGED <<stats, step, quitHist>>
    /\ UNCHANGED base

\* Mutant of OuterCheck: the outer loop is "while True".
OuterCheckForever ==
    /\ pc = "outer"
    /\ games < MaxGames
    /\ pc' = "reset"
    /\ UNCHANGED <<quitting, expected_win, game, solves, seenQuit>>
    /\ UNCHANGED <<stats, step, quitHist>>
    /\ UNCHANGED base

\* Mutant of OuterCheck: the statistics are printed once more when run() ends.
OuterCheckReportsOnExit ==
    /\ pc = "outer"
    /\ \/ /\ quitting
          /\ pc' = IF seenQuit THEN "finished" ELSE "stats"
          /\ seenQuit' = TRUE
       \/ /\ ~quitting
          /\ games < MaxGames
          /\ pc' = "reset"
          /\ UNCHANGED seenQuit
    /\ UNCHANGED <<quitting, expected_win, game, solves>>
    /\ UNCHANGED <<stats, step, quitHist>>
    /\ UNCHANGED base

\* Line 48: while not self.quitting
OuterCheck ==
    /\ pc = "outer"
    /\ \/ /\ quitting
          /\ pc' = "finished"
          /\ seenQuit' = TRUE
       \/ /\ ~quitting
          /\ games < MaxGames
          /\ pc' = "reset"
          /\ UNCHANGED seenQuit
    /\ UNCHANGED <<quitting, expected_win, game, solves>>
    /\ UNCHANGED <<stats, step, quitHist>>
    /\ UNCHANGED base

\* Mutant of Reset: a new session clears the cancellation flag.
ResetClearingFlag ==
    /\ pc = "reset"
    /\ \E m \in Layouts(num_mines(game)) : game' = NewGame(m)
    /\ expected_win' = One
    /\ games' = games + 1
    /\ resetsAfterQuit' = resetsAfterQuit + (IF quitting THEN 1 ELSE 0)
    /\ pc' = "inner"
    /\ quitting' = FALSE
    /\ UNCHANGED <<solves, seenQuit, solvesAfterQuit>>
    /\ UNCHANGED <<wins, expected_wins, report, recorded, step>>
    /\ UNCHANGED base

\* Mutant of Reset: expected_win is carried over from the game before.
ResetKeepingAccumulator ==
    /\ pc = "reset"
    /\ \E m \in Layouts(num_mines(game)) : game' = NewGame(m)
    /\ games' = games + 1
    /\ resetsAfterQuit' = resetsAfterQuit + (IF quitting THEN 1 ELSE 0)
    /\ pc' = "inner"
    /\ UNCHANGED <<quitting, expected_win, solves, seenQuit, solvesAfterQuit>>
    /\ UNCHANGED <<wins, expected_wins, report, recorded, step>>
    /\ UNCHANGED base

\* Lines 49-58: a new session.
Reset ==
    /\ pc = "reset"
    /\ \E m \in Layouts(num_mines(game)) : game' = NewGame(m)
    /\ expected_win' = One
    /\ games' = games + 1
    /\ resetsAfterQuit' = resetsAfterQuit + (IF quitting THEN 1 ELSE 0)
    /\ pc' = "inner"
    /\ UNCHANGED <<quitting, solves, seenQuit, solvesAfterQuit>>
    /\ UNCHANGED <<wins, expected_wins, report, recorded, step>>
    /\ UNCHANGED base

\* Mutant of InnerCheck: the step loop is "while not game.done".
InnerCheckIgnoringQuit ==
    /\ pc = "inner"
    /\ \/ /\ game.done
          /\ pc' = "stats"
       \/ /\ ~game.done
          /\ solves < MaxSolves
          /\ pc' = "solve"
    /\ UNCHANGED <<quitting, expected_win, game, solves, seenQuit>>
    /\ UNCHANGED <<stats, step, quitHist>>
    /\ UNCHANGED base

\* Line 59: while not game.done and not self.quitting
InnerCheck ==
    /\ pc = "inner"
    /\ \/ /\ game.done
          /\ pc' = "stats"
          /\ UNCHANGED seenQuit
       \/ /\ ~game.done
          /\ quitting
          /\ pc' = "stats"
          /\ seenQuit' = TRUE
       \/ /\ ~game.done
          /\ ~quitting
          /\ solves < MaxSolves
          /\ pc' = "solve"
          /\ UNCHANGED seenQuit
    /\ UNCHANGED <<quitting, expected_win, game, solves>>
    /\ UNCHANGED <<stats, step, quitHist>>
    /\ UNCHANGED base

\* Lines 60-63: prob = solver.solve(state), and the cells of the flag loop.
Solve ==
    /\ pc = "solve"
    /\ prob' \in Grids
    /\ todo' = NewMines(game.state, prob')
    /\ verdict' = "none"
    /\ log' = <<Ev("solve", NoGuess)>>
    /\ state0' = game.state
    /\ ew0' = expected_win
    /\ solves' = solves + 1
    /\ solvesAfterQuit' = solvesAfterQuit + (IF quitting THEN 1 ELSE 0)
    /\ pc' = "flag"
    /\ UNCHANGED <<quitting, expected_win, game, seenQuit, resetsAfterQuit>>
    /\ UNCHANGED stats
    /\ UNCHANGED base

\* Line 64: one iteration of the flag loop, gui.right_click_action(x, y).
FlagNext ==
    /\ pc = "flag"
    /\ todo # <<>>
    /\ game' = right_click_action(game, Head(todo))
    /\ log' = Append(log, Ev("flag", Head(todo)))
    /\ todo' = Tail(todo)
    /\ UNCHANGED <<quitting, pc, expected_win, solves, seenQuit, prob, verdict, state0, ew0>>
    /\ UNCHANGED <<stats, quitHist>>
    /\ UNCHANGED base

\* Mutant of Decide: the call of verify is removed.
DecideWithoutVerify ==
    /\ pc = "flag"
    /\ todo = <<>>
    /\ todo' = BestCells(prob)
    /\ pc' = IF nanmin(prob) # 0 THEN "guess" ELSE "open"
    /\ UNCHANGED <<quitting, expected_win, game, solves, seenQuit, prob, verdict, log, state0, ew0>>
    /\ UNCHANGED <<stats, quitHist>>
    /\ UNCHANGED base

\* Lines 65-69: after the flag loop, best_prob and its cells (ys, xs), and
\* the branch on best_prob != 0.
Decide ==
    /\ pc = "flag"
    /\ todo = <<>>
    /\ todo' = BestCells(prob)
    /\ pc' = IF nanmin(prob) # 0 THEN "verify" ELSE "open"
    /\ UNCHANGED <<quitting, expected_win, game, solves, seenQuit, prob, verdict, log, state0, ew0>>
    /\ UNCHANGED <<stats, quitHist>>
    /\ UNCHANGED base

\* Mutant of Verify: the exception of verify is swallowed.
VerifyIgnoringFailure ==
    /\ pc = "verify"
    /\ verdict' = verify(game, prob)
    /\ log' = Append(log, Ev("verify", NoGuess))
    /\ pc' = "guess"
    /\ UNCHANGED <<quitting, expected_win, game, solves, seenQuit, prob, todo, state0, ew0>>
    /\ UNCHANGED <<stats, quitHist>>
    /\ UNCHANGED base

\* Mutant of Verify: verify is given the board as it was before the flag loop
\* (the log holds the solve and the flags of the step).
VerifyBeforeFlagging ==
    /\ pc = "verify"
    /\ verdict' = verify([game EXCEPT !.state = state0,
                                      !.mines_left = @ + Len(log) - 1], prob)
    /\ log' = Append(log, Ev("verify", NoGuess))
    /\ pc' = IF verdict' = "ok" THEN "guess" ELSE "crashed"
    /\ UNCHANGED <<quitting, expected_win, game, solves, seenQuit, prob, todo, state0, ew0>>
    /\ UNCHANGED <<stats, quitHist>>
    /\ UNCHANGED base

\* Line 72: verify(game, prob); its exception ends run().
Verify ==
    /\ pc = "verify"
    /\ verdict' = verify(game, prob)
    /\ log' = Append(log, Ev("verify", NoGuess))
    /\ pc' = IF verdict' = "ok" THEN "guess" ELSE "crashed"
    /\ UNCHANGED <<quitting, expected_win, game, solves, seenQuit, prob, todo, state0, ew0>>
    /\ UNCHANGED <<stats, quitHist>>
    /\ UNCHANGED base

\* Lines 74-77: account for the guess and open the cell the policy names.
Guess ==
    /\ pc = "guess"
    /\ expected_win' = RatMul(expected_win, Complement(nanmin(prob)))
    /\ log' = log \o <<Ev("policy", NoGuess), Ev("reveal", corner_then_edge2_policy(prob))>>
    /\ game' = left_click_action(game, corner_then_edge2_policy(prob))
    /\ pc' = "sleep"
    /\ UNCHANGED <<quitting, solves, seenQuit, prob, todo, verdict, state0, ew0>>
    /\ UNCHANGED <<stats, quitHist>>
    /\ UNCHANGED base

\* Lines 81-82: one iteration of the loop that opens all the knowns,
\* gui.left_click_action(x, y); the step ends after the last one.
OpenNext ==
    /\ pc = "open"
    /\ todo # <<>>
    /\ game' = left_click_action(game, Head(todo))
    /\ log' = Append(log, Ev("reveal", Head(todo)))
    /\ todo' = Tail(todo)
    /\ pc' = IF Len(todo) = 1 THEN "sleep" ELSE "open"
    /\ UNCHANGED <<quitting, expected_win, solves, seenQuit, prob, verdict, state0, ew0>>
    /\ UNCHANGED <<stats, quitHist>>
    /\ UNCHANGED base

\* Line 83: sleep(1); the step's locals are dead from here on.
Sleep ==
    /\ pc = "sleep"
    /\ pc' = "inner"
    /\ prob' = NoGrid
    /\ todo' = <<>>
    /\ verdict' = "none"
    /\ log' = <<>>
    /\ state0' = game.state
    /\ ew0' = expected_win
    /\ UNCHANGED <<quitting, expected_win, game, solves, seenQuit>>
    /\ UNCHANGED <<stats, quitHist>>
    /\ UNCHANGED base

\* Mutant of Stats: wins is incremented whatever game.is_won() says.
StatsAlwaysWon ==
    /\ pc = "stats"
    /\ expected_wins' = RatAdd(expected_wins, expected_win)
    /\ wins' = wins + 1
    /\ IF IsInt(expected_win)
       THEN /\ pc' = "crashed"
            /\ UNCHANGED <<report, recorded>>
       ELSE /\ report' = [game_win |-> expected_win, wins |-> wins',
                          games |-> games, e_wins |-> expected_wins',
                          win_rate |-> Rat(wins', games)]
            /\ recorded' = Append(recorded, <<is_won(game), expected_win>>)
            /\ pc' = "outer"
    /\ UNCHANGED <<quitting, games, expected_win, game, solves, seenQuit>>
    /\ UNCHANGED <<step, quitHist>>
    /\ UNCHANGED base

\* Lines 84-89: add the game to the totals and print the statistics.  The
\* format '{:.3}' of line 87 takes a float: when expected_win is still the
\* int 1 of line 55, str.format raises ValueError after lines 84-86 have
\* run, nothing is printed and the exception ends run().
Stats ==
    /\ pc = "stats"
    /\ expected_wins' = RatAdd(expected_wins, expected_win)
    /\ wins' = wins + (IF is_won(game) THEN 1 ELSE 0)
    /\ IF IsInt(expected_win)
       THEN /\ pc' = "crashed"
            /\ UNCHANGED <<report, recorded>>
       ELSE /\ report' = [game_win |-> expected_win, wins |-> wins',
                          games |-> games, e_wins |-> expected_wins',
                          win_rate |-> Rat(wins', games)]
            /\ recorded' = Append(recorded, <<is_won(game), expected_win>>)
            /\ pc' = "outer"
    /\ UNCHANGED <<quitting, games, expected_win, game, solves, seenQuit>>
    /\ UNCHANGED <<step, quitHist>>
    /\ UNCHANGED base

Worker ==
    \/ OuterCheck
    \/ Reset
    \/ InnerCheck
    \/ Solve
    \/ FlagNext
    \/ Decide
    \/ Verify
    \/ Guess
    \/ OpenNext
    \/ Sleep
    \/ Stats

Next == Quit \/ Worker

Spec == Init /\ [][Next]_vars

\* The worker thread keeps running while it has a step to take.
FairSpec == Spec /\ WF_vars(Worker)

(***************************************************************************)
(* verify(game, prob) taken alone.  It reads game.state and                *)
(* game.mines_left and the grid, so it is applied to every board of a      *)
(* family of boards the game can show and to every grid of a family of     *)
(* grids, and then once more after one cell of the grid has been changed.  *)
(***************************************************************************)
\* The cells a board of the family has opened, or flagged: none, or one.
OpenedCells == {NoGuess, <<0, 0>>, <<1, 1>>}

FlaggedCells == {NoGuess, <<1, 0>>}

\* The board after the given cells have been opened and flagged.
BoardOf(mines, o, f) ==
    LET opened == left_click_action(NewGame(mines), o)
    IN IF f \in Cells THEN right_click_action(opened, f) ELSE opened

\* The boards verify is applied to: games still running.
Boards ==
    {b \in {BoardOf(m, o, f) : m \in UNION {Layouts(n) : n \in 1 .. MaxMines},
                               o \in OpenedCells, f \in FlaggedCells} :
        ~b.done}

\* The values a cell is changed to: the values of the solver's grids, values
\* one tolerance away from 1/9, and a value above 1.
Slack == Tolerance(Den)

CellValues ==
    ProbValues \cup {Den \div 9 - Slack, Den \div 9 + Slack, Den + Den \div 9}

\* The grids verify is applied to first.
FirstGrids ==
    {GridOf(b, R, u) : b \in {NaN, Den \div 9, Den \div 3}, R \in Regions,
                       u \in {NaN, Den \div 9 + Slack, Den \div 3, Den}}

\* What verify does not touch.
outside ==
    <<quitting, wins, games, expected_wins, expected_win, todo, report, log,
      state0, ew0, solves, seenQuit, solvesAfterQuit, resetsAfterQuit,
      recorded>>

VerifyInit ==
    /\ pc = "input"
    /\ game \in Boards
    /\ prob \in FirstGrids
    /\ verdict = "none"
    /\ base = NoBase
    /\ quitting = FALSE
    /\ wins = 0
    /\ games = 0
    /\ expected_wins = Zero
    /\ expected_win = Zero
    /\ todo = <<>>
    /\ report = NoReport
    /\ log = <<>>
    /\ state0 = game.state
    /\ ew0 = Zero
    /\ solves = 0
    /\ seenQuit = FALSE
    /\ solvesAfterQuit = 0
    /\ resetsAfterQuit = 0
    /\ recorded = <<>>

\* verify(game, prob) on the input.
ApplyVerify ==
    /\ pc = "input"
    /\ verdict' = verify(game, prob)
    /\ pc' = "verified"
    /\ UNCHANGED <<game, prob, base, outside>>

\* One cell of the grid is given another value, and verify(game, prob) is
\* applied to the changed grid.
ChangeCell ==
    /\ pc = "verified"
    /\ \E c \in Cells : \E v \in CellValues \ {prob[c]} :
          /\ base' = [prob |-> prob, verdict |-> verdict, cell |-> c]
          /\ prob' = [prob EXCEPT ![c] = v]
          /\ verdict' = verify(game, prob')
    /\ pc' = "changed"
    /\ UNCHANGED <<game, outside>>

VerifyNext == ApplyVerify \/ ChangeCell

VerifySpec == VerifyInit /\ [][VerifyNext]_vars

(***************************************************************************)
(* Properties.                                                             *)
(***************************************************************************)
Indices(op) == {i \in DOMAIN log : log[i].op = op}

Count(op) == Cardinality(Indices(op))

CellsOf(op) == {<<log[i].x, log[i].y>> : i \in Indices(op)}

\* The positions of run() after the decision of a step has been carried out.
Decided == {"guess", "sleep", "crashed"}

\* The positions of run() after the auto-flagging of a step.
AfterFlag == {"verify", "open"} \cup Decided

\* The positions of run() inside a step.
MidStep == {"flag", "verify", "guess", "open"}

Terminated == {"finished", "crashed"}

VerifiedBeforeReveal ==
    \A i \in Indices("reveal") : \E j \in Indices("verify") : j < i

RECURSIVE SumRecorded(_)
SumRecorded(r) ==
    IF r = <<>> THEN Zero ELSE RatAdd(r[1][2], SumRecorded(Tail(r)))

WonRecorded == Cardinality({i \in DOMAIN recorded : recorded[i][1]})

\* C1 (as claimed): at the end of every step the verifier has run exactly
\* once, before every Reveal of the step, whichever branch was taken.
C1_VerifiedEveryStep ==
    pc = "sleep" => Count("verify") = 1 /\ VerifiedBeforeReveal

\* C1 (amended): in a step with best_prob != 0 the verifier runs exactly once,
\* before the Reveal of the step; in a step with best_prob == 0 the verifier
\* is not run and the Reveals are emitted unverified.
C1_VerifiedOnlyWhenGuessing ==
    pc \in Decided \cup {"open"} /\ log # <<>> =>
        /\ nanmin(prob) # 0 => Count("verify") = 1 /\ VerifiedBeforeReveal
        /\ nanmin(prob) = 0 => Count("verify") = 0 /\ verdict = "none"

C1_Witness ==
    /\ pc = "sleep"
    /\ nanmin(prob) # 0
    /\ Count("verify") = 1
    /\ Count("reveal") = 1

\* C2: when verify reports an inconsistency the run ends there: the step has
\* emitted no Reveal and has not multiplied expected_win, and afterwards no
\* solve call, Flag, Reveal, reset or statistics update happens.
C2_InconsistencyAborts ==
    /\ [](verdict \notin {"none", "ok"} =>
            /\ pc = "crashed"
            /\ Count("reveal") = 0
            /\ expected_win = ew0)
    /\ [][pc = "crashed" =>
            /\ pc' = "crashed"
            /\ UNCHANGED <<game, log, solves, games, expected_win, stats>>]_vars

C2_Witness ==
    /\ pc = "crashed"
    /\ verdict = "LocalSumMismatch"
    /\ Count("flag") > 0
    /\ quitting

\* C3: once the worker has read quitting as True it makes no solve call,
\* emits no Flag or Reveal and starts no new session.
C3_NothingAfterSeenQuit ==
    [][seenQuit =>
         /\ solves' = solves
         /\ games' = games
         /\ game' = game
         /\ log' = log
         /\ pc' \in {"stats", "outer", "finished", "crashed"}]_vars

C3_Witness ==
    /\ seenQuit
    /\ pc = "finished"
    /\ games = 1
    /\ solves = 1
    /\ ~game.done

\* C4: once quitting is set the worker terminates; from then on it starts at
\* most one more solve call and at most one more session, and a step that is
\* under way is carried through to its end.
C4_CancellationTerminates ==
    /\ quitting ~> (pc \in Terminated)
    /\ [](solvesAfterQuit <= 1 /\ resetsAfterQuit <= 1)
    /\ [][quitting /\ pc \in MidStep => pc' \in MidStep \cup {"sleep", "crashed"}]_vars

C4_Witness ==
    /\ quitting
    /\ pc = "finished"
    /\ solvesAfterQuit = 1
    /\ Len(recorded) = 1

\* C5: quitting starts False, only quit() writes it and only to True, quit()
\* writes nothing else, and once True it stays True.
C5_FlagWriteOnce ==
    /\ ~quitting
    /\ [][quitting => quitting']_vars
    /\ [][quitting' # quitting =>
            /\ quitting'
            /\ UNCHANGED <<pc, expected_win, game, solves, seenQuit, stats, step, quitHist>>]_vars

C5_Witness ==
    /\ quitting
    /\ pc = "flag"
    /\ games = MaxGames

\* C6: the cells flagged in a step are exactly those at probability 1 that
\* were not flagged when the grid was obtained, each flagged once.
C6_FlagsExactlyNewMines ==
    pc \in AfterFlag =>
        /\ CellsOf("flag") = {c \in Cells : prob[c] = Den /\ state0[c] # Flagged}
        /\ Count("flag") = Cardinality(CellsOf("flag"))
        /\ \A c \in CellsOf("flag") : state0[c] # Flagged

C6_Witness ==
    /\ pc = "open"
    /\ \E c \in Cells : state0[c] = Flagged /\ prob[c] = Den
    /\ Count("flag") > 0

\* C7: a guess step multiplies expected_win by 1 - best_prob once and emits
\* one Reveal, at the cell the policy returns.
C7_GuessStep ==
    pc = "sleep" /\ nanmin(prob) # 0 =>
        /\ expected_win = RatMul(ew0, Rat(Den - nanmin(prob), Den))
        /\ Count("policy") = 1
        /\ Count("reveal") = 1
        /\ CellsOf("reveal") = {corner_then_edge2_policy(prob)}

\* A board with one mine, the uniform grid of 1/9: one Reveal, 1 -> 8/9.
C7_Witness ==
    /\ pc = "sleep"
    /\ Cardinality(Cells) = 9
    /\ num_mines(game) = 1
    /\ \A c \in Cells : prob[c] * 9 = Den
    /\ ew0 = One
    /\ expected_win = Rat(8, 9)
    /\ Count("reveal") = 1

\* C8: a step with best_prob == 0 reveals exactly the cells at probability 0,
\* each once, does not call the policy and leaves expected_win unchanged.
C8_OpenStep ==
    pc = "sleep" /\ nanmin(prob) = 0 =>
        /\ CellsOf("reveal") = {c \in Cells : prob[c] = 0}
        /\ Count("reveal") = Cardinality(CellsOf("reveal"))
        /\ Count("policy") = 0
        /\ expected_win = ew0

C8_Witness ==
    /\ pc = "sleep"
    /\ nanmin(prob) = 0
    /\ Count("reveal") = 3
    /\ Count("flag") = 0
    /\ \E c \in Cells : 0 < prob[c] /\ prob[c] < Den
    /\ expected_win # One

\* C9: whenever the policy has been called, the grid has a non-missing entry
\* and its least non-missing entry lies strictly between 0 and 1.
C9_PolicyOnlyOnUncertain ==
    Count("policy") > 0 =>
        /\ NonNan(prob) # {}
        /\ 0 < nanmin(prob)
        /\ nanmin(prob) < Den
        /\ corner_then_edge2_policy(prob) \in Cells

C9_Witness ==
    /\ Count("policy") > 0
    /\ \E c \in Cells : IsNan(prob[c])
    /\ NumberCells(state0) # {}

\* C10 (as claimed): after N recorded games with W wins the statistics give
\* the win rate W/N and the expected win rate (sum of expected_win)/N.
C10_RatesOverN ==
    recorded # <<>> /\ pc = "outer" =>
        /\ report.win_rate = Rat(WonRecorded, Len(recorded))
        /\ report.e_wins = RatMul(SumRecorded(recorded), Rat(1, Len(recorded)))

\* C10 (amended): after N recorded games with W wins the statistics give the
\* win rate W/N and the sum of the per-game expected_win values, E[Wins],
\* which is not divided by N.
C10_RateAndSum ==
    recorded # <<>> /\ pc = "outer" =>
        /\ report.games = Len(recorded)
        /\ report.wins = WonRecorded
        /\ report.win_rate = Rat(WonRecorded, Len(recorded))
        /\ report.e_wins = SumRecorded(recorded)

C10_Witness ==
    /\ pc = "outer"
    /\ Len(recorded) = 1
    /\ WonRecorded = 1
    /\ report.win_rate = Rat(1, 1)
    /\ report.e_wins = Rat(8, 9)

\* The positions at which verdict holds verify(game, prob), taken alone.
Verified == {"verified", "changed"}

\* C11: verify applies its four checks in the order range, minimum, global
\* sum, neighbour sums and stops at the first that fails: the kind it reports
\* is that of the first check the input violates, whatever the later checks
\* would say, and it returns only when all four hold.
C11_ChecksInOrder ==
    pc \in Verified =>
        LET range == RangeOk(prob)
            best == BestOk(prob)
            global == GlobalOk(game, prob)
            local == LocalOk(game, prob)
        IN /\ verdict = "OutOfRange" <=> ~range
           /\ verdict = "NoValidGuessBound" <=> range /\ ~best
           /\ verdict = "GlobalSumMismatch" <=> range /\ best /\ ~global
           /\ verdict = "LocalSumMismatch" <=>
                  range /\ best /\ global /\ ~local
           /\ verdict = "ok" <=> range /\ best /\ global /\ local

\* A grid that violates the first and the last check is reported under the
\* first.
C11_Witness ==
    /\ pc \in Verified
    /\ ~RangeOk(prob)
    /\ ~LocalOk(game, prob)
    /\ verdict = "OutOfRange"

\* The entry of the changed cell before and after the change.
OldValue == base.prob[base.cell]

NewValue == prob[base.cell]

\* What the global check compares the sum of the grid before the change to.
ExpectedSum == (game.mines_left + CountOnes(base.prob)) * Den

Uncertain(p) == ~IsNan(p) /\ 0 < p /\ p < Den

\* C12 as stated: from an accepted grid, changing the value of any one cell
\* by more than the tolerance makes verify report GlobalSumMismatch.
C12_AnyChangeIsGlobalMismatch ==
    (/\ pc = "changed"
     /\ base.verdict = "ok"
     /\ ~IsNan(OldValue)
     /\ ~IsNan(NewValue)
     /\ Abs(NewValue - OldValue) > Tolerance(ExpectedSum))
        => verdict = "GlobalSumMismatch"

\* C12, amended: from an accepted grid, changing one cell from a value
\* strictly between 0 and 1 to another such value, by more than twice the
\* tolerance of the global check, makes verify report GlobalSumMismatch.
C12_UncertainChangeIsGlobalMismatch ==
    (/\ pc = "changed"
     /\ base.verdict = "ok"
     /\ Uncertain(OldValue)
     /\ Uncertain(NewValue)
     /\ Abs(NewValue - OldValue) > 2 * Tolerance(ExpectedSum))
        => verdict = "GlobalSumMismatch"

\* An accepted grid with one cell moved from 1/9 to 1/3.
C12_Witness ==
    /\ pc = "changed"
    /\ base.verdict = "ok"
    /\ OldValue = Den \div 9
    /\ NewValue = Den \div 3
    /\ verdict = "GlobalSumMismatch"

\* The changed cell lies next to an opened cell that shows a number.
NextToNumber == \E d \in NumberCells(game.state) : base.cell \in Neighbours(d)

\* C13 as stated: from an accepted board and grid, corrupting the probability
\* of one neighbour of an opened numbered cell makes verify report
\* LocalSumMismatch.
C13_CorruptNeighbourIsLocalMismatch ==
    (/\ pc = "changed"
     /\ base.verdict = "ok"
     /\ NextToNumber
     /\ Uncertain(OldValue)
     /\ Uncertain(NewValue)
     /\ Abs(NewValue - OldValue) > 2 * Tolerance(ExpectedSum))
        => verdict = "LocalSumMismatch"

\* C13, amended: from an accepted board and grid, changing the probability of
\* one neighbour of an opened numbered cell from a value strictly between 0
\* and 1 to another such value, by more than twice the tolerance of the
\* global check, makes verify report GlobalSumMismatch: the global check
\* comes first and the changed value has changed the sum of the grid.
C13_CorruptNeighbourIsGlobalMismatch ==
    (/\ pc = "changed"
     /\ base.verdict = "ok"
     /\ NextToNumber
     /\ Uncertain(OldValue)
     /\ Uncertain(NewValue)
     /\ Abs(NewValue - OldValue) > 2 * Tolerance(ExpectedSum))
        => /\ verdict = "GlobalSumMismatch"
           /\ verdict # "LocalSumMismatch"

\* A neighbour of a numbered cell moved from 1/3 to 1/9: the neighbour sum no
\* longer matches the number, and the global sum is what verify reports.
C13_Witness ==
    /\ pc = "changed"
    /\ base.verdict = "ok"
    /\ NextToNumber
    /\ OldValue = Den \div 3
    /\ NewValue = Den \div 9
    /\ ~LocalOk(game, prob)
    /\ verdict = "GlobalSumMismatch"

\* The sum of the entries of the grid, a missing entry counting 0.
PlainSum == SumOver([c \in Cells |-> IF IsNan(prob[c]) THEN 0 ELSE prob[c]], Cells)

\* The same sum with the entry of every flagged cell replaced by 1.
FlagsForcedSum ==
    SumOver([c \in Cells |-> IF game.state[c] = Flagged THEN Den
                             ELSE IF IsNan(prob[c]) THEN 0 ELSE prob[c]], Cells)

\* verify has come as far as the global check.
ReachesGlobal == pc \in Verified /\ RangeOk(prob) /\ BestOk(prob)

\* C14 as stated: the global check passes exactly when the sum of the grid,
\* missing entries as 0 and flagged cells forced to 1, equals mines_left plus
\* the number of entries that are exactly 1.
C14_GlobalSumFlagsForced ==
    ReachesGlobal =>
        (verdict # "GlobalSumMismatch" <=>
            IsClose(FlagsForcedSum, (game.mines_left + CountOnes(prob)) * Den))

\* C14, amended: the global check passes exactly when the sum of the entries
\* of the grid, missing entries as 0 and a flagged cell counting what the
\* grid holds for it, is close to mines_left plus the number of entries that
\* are exactly 1.
C14_GlobalSumOfGrid ==
    ReachesGlobal =>
        (verdict # "GlobalSumMismatch" <=>
            IsClose(PlainSum, (game.mines_left + CountOnes(prob)) * Den))

\* A board with a flagged cell whose grid passes the global check and would
\* not with the flagged cell counted as 1.
C14_Witness ==
    /\ ReachesGlobal
    /\ \E c \in Cells : game.state[c] = Flagged /\ prob[c] # Den
    /\ verdict # "GlobalSumMismatch"
    /\ ~IsClose(FlagsForcedSum, (game.mines_left + CountOnes(prob)) * Den)

\* The board the flag loop of the step leaves: the cells it clicked that were
\* unopened at the start of the step are flagged.
StateAfterFlags ==
    [c \in Cells |-> IF c \in CellsOf("flag") /\ state0[c] = Unopened
                      THEN Flagged ELSE state0[c]]

\* C15: a step is sequential: its one call of solve comes first, its flags
\* come before verify and before every reveal, the grid is not changed after
\* solve returned it, and verify reads the board (flags and mines_left) as the
\* flag loop of the step left it.
C15_StepOrder ==
    /\ [](log # <<>> =>
            /\ log[1].op = "solve"
            /\ Count("solve") = 1
            /\ Count("verify") <= 1
            /\ \A i \in Indices("flag") :
                   \A j \in Indices("verify") \cup Indices("reveal") : i < j)
    /\ [](pc \in {"guess", "crashed"} /\ log # <<>> =>
            /\ game.state = StateAfterFlags
            /\ game.mines_left =
                   num_mines(game)
                       - Cardinality({c \in Cells : game.state[c] = Flagged})
            /\ verdict = verify(game, prob))
    /\ [][(pc \in MidStep) => UNCHANGED prob]_vars

\* A step that flagged a cell and whose grid verify accepted on the board
\* after the flag, and would have rejected on the board before it.
C15_Witness ==
    /\ pc = "guess"
    /\ Count("flag") >= 1
    /\ verdict = "ok"
    /\ verify([game EXCEPT !.state = state0,
                           !.mines_left = @ + Count("flag")], prob) # "ok"

\* C16: every session whose step loop has exited is recorded once, with its
\* win and its expected_win, and run() goes back to the outer loop, which
\* starts a new session with a reset when it reads quitting as not set.
C16_EverySessionRecorded ==
    /\ [][(pc = "stats" /\ pc' # pc) =>
            /\ wins' = wins + (IF is_won(game) THEN 1 ELSE 0)
            /\ expected_wins' = RatAdd(expected_wins, expected_win)
            /\ recorded' = Append(recorded, <<is_won(game), expected_win>>)
            /\ pc' = "outer"]_vars
    /\ [][(pc = "outer" /\ ~quitting /\ pc' # pc) => pc' = "reset"]_vars

\* verify has come as far as the neighbour check.
ReachesLocal == ReachesGlobal /\ GlobalOk(game, prob)

\* The probability mass on the neighbours of c, the cell itself left out:
\* flagged cells count 1, missing entries 0, cells off the board nothing.
NeighbourSum(c) == SumOver(FilledGrid(game.state, prob), Neighbours(c))

\* C17: the neighbour check passes exactly when, for every opened cell that
\* shows a number, the probability mass on its up to 8 neighbours (the cell
\* itself excluded, flagged cells as 1, missing entries as 0) is close to the
\* number.
C17_LocalSumOverNeighbours ==
    ReachesLocal =>
        (verdict # "LocalSumMismatch" <=>
            \A c \in NumberCells(game.state) :
                IsClose(game.state[c].n * Den, NeighbourSum(c)))

\* C18: expected_win is set to 1 at the start of every game, is changed
\* otherwise only by a guess whose grid verify accepted, which lowers it, and
\* from the first game on it lies in the interval (0, 1].
C18_AccumulatorInUnitInterval ==
    /\ [](games >= 1 => expected_win[1] > 0 /\ RatLeq(expected_win, One))
    /\ [][(pc = "reset" /\ pc' # pc) => expected_win' = One]_vars
    /\ [][\/ expected_win' = expected_win
          \/ pc = "reset"
          \/ /\ pc = "guess"
             /\ verdict = "ok"
             /\ Count("verify") = 1
             /\ RatLeq(expected_win', expected_win)]_vars

\* The second guess of a game: expected_win was below 1 before the step and
\* is lower after it.
C18_Witness ==
    /\ pc = "sleep"
    /\ Count("reveal") = 1
    /\ verdict = "ok"
    /\ ew0 # One
    /\ expected_win # ew0
    /\ RatLeq(expected_win, ew0)
    /\ expected_win[1] > 0

\* C19: wins lies between 0 and games, and games is at least 1 wherever
\* wins / games is computed (line 88) and in every report printed, also when
\* quitting is set before the first step of the first game.
C19_WinsWithinGames ==
    /\ 0 <= wins
    /\ wins <= games
    /\ pc = "stats" => games >= 1
    /\ report # NoReport =>
          /\ report.games >= 1
          /\ report.wins <= report.games
          /\ report.win_rate = Rat(report.wins, report.games)

\* The first game is about to be recorded with quitting read as set before
\* its first step.
C19_Witness ==
    /\ pc = "stats"
    /\ quitting
    /\ seenQuit
    /\ solves = 0
    /\ games = 1
    /\ wins = 0

\* The neighbour check of line 113 without its guard: the comparison over the
\* opened cells that show a number, however many there are.
LocalOkUnguarded ==
    \A c \in NumberCells(game.state) :
        IsClose(game.state[c].n * Den, SummedProb(game.state, prob, c))

\* verify with that guard removed.
verifyUnguarded ==
    IF ~RangeOk(prob) THEN "OutOfRange"
    ELSE IF ~BestOk(prob) THEN "NoValidGuessBound"
    ELSE IF ~GlobalOk(game, prob) THEN "GlobalSumMismatch"
    ELSE IF ~LocalOkUnguarded THEN "LocalSumMismatch"
    ELSE "ok"

\* C20: the guard "not np.isnan(state).all()" of line 113 does not change the
\* result of verify: on every board and grid the verdict is the one verify
\* gives with the guard removed.
C20_GuardChangesNothing ==
    pc \in Verified => verdict = verifyUnguarded

\* A board without an opened numbered cell, where the guard skips the
\* comparison, and a grid that passes the three checks before it.
C20_Witness ==
    /\ pc \in Verified
    /\ NumberCells(game.state) = {}
    /\ ReachesLocal
    /\ verdict = "ok"

====
